---- MODULE Spec2Model ----
(***************************************************************************)
(* Model of the Prometheus exporters setup tool: the build script          *)
(* (build.rs) that fetches the artifacts to embed, and the installer       *)
(* (src/main.rs, src/exporter/*.rs) that places them on the host.  The     *)
(* download functions of the older top-level modules (src/node_exporter.rs, *)
(* src/windows_exporter.rs) are modelled next to their successors.         *)
(*                                                                         *)
(* The file system is the state; every operation is one atomic action      *)
(* whose inputs (environment variables, the HTTP response, one injected    *)
(* fault) are drawn from small sets, and `last` records what               *)
(* the operation was given and what it did.                                *)
(***************************************************************************)
EXTENDS Integers, Sequences, FiniteSets, TLC

VARIABLES
    host,     \* whose file system this is: the build machine's or the target's
    triple,   \* the target triple the tool is built for and runs on
    plat,     \* what the compiler and build.rs's main derive from it, once
    files,    \* path -> bytes, for every regular file on disk
    dirs,     \* the directories on disk
    execs,    \* the files with mode 0o755
    services, \* the services registered with the Windows service manager
    embedded, \* the payloads compiled into the installer (include_bytes!)
    last,     \* the most recent operation: its inputs and its outcome
    nops      \* operations run so far

vars == <<host, triple, plat, files, dirs, execs, services, embedded, last, nops>>

(***************************************************************************)
(* Bounds                                                                  *)
(***************************************************************************)
MaxOps == 2
MaxRuns == 1

(***************************************************************************)
(* Strings                                                                 *)
(***************************************************************************)
Contains(s, t) ==
    \E i \in 1..(Len(s) - Len(t) + 1) : SubSeq(s, i, i + Len(t) - 1) = t

EndsWith(s, t) == Len(s) >= Len(t) /\ SubSeq(s, Len(s) - Len(t) + 1, Len(s)) = t

(***************************************************************************)
(* Paths are sequences of components, "/" or a drive first when absolute;  *)
(* <<>> is the empty path, which names the current directory.              *)
(***************************************************************************)
NoPath == << >>

\* Path::parent
Parent(p) == IF Len(p) <= 1 THEN NoPath ELSE SubSeq(p, 1, Len(p) - 1)

\* The path and every directory above it
Ancestors(p) == { SubSeq(p, 1, k) : k \in 1..Len(p) }

\* Path::join with a relative path
Join(p, q) == p \o q

\* The file the operating system opens for a path: every ".." component
\* leaves the directory reached so far.
RECURSIVE Resolve(_, _)
Resolve(done, rest) ==
    IF rest = << >> THEN done
    ELSE IF Head(rest) = ".."
         THEN Resolve(IF Len(done) > 1 THEN SubSeq(done, 1, Len(done) - 1) ELSE done,
                      Tail(rest))
    ELSE Resolve(Append(done, Head(rest)), Tail(rest))

\* Path::join: an absolute argument replaces the path it is joined to.
PathJoin(base, name) ==
    IF name # << >> /\ name[1] = "/" THEN Resolve(<< >>, name)
    ELSE Resolve(<< >>, base \o name)

RECURSIVE JoinWith(_, _)
JoinWith(p, sep) ==
    IF Len(p) = 0 THEN ""
    ELSE IF Len(p) = 1 THEN p[1]
    ELSE p[1] \o sep \o JoinWith(Tail(p), sep)

\* The path as the string the program formats it from
Str(p) ==
    IF p = NoPath THEN ""
    ELSE IF p[1] = "/" THEN "/" \o JoinWith(Tail(p), "/")
    ELSE IF p[1] = "C:" THEN JoinWith(p, "\\")
    ELSE JoinWith(p, "/")

(***************************************************************************)
(* Platform: rustc derives env::consts::OS / ARCH and cfg(...) from the    *)
(* target triple.                                                          *)
(***************************************************************************)
Triples ==
    { "x86_64-unknown-linux-gnu", "i686-unknown-linux-gnu",
      "aarch64-unknown-linux-gnu", "x86_64-pc-windows-msvc",
      "aarch64-apple-darwin", "x86_64-unknown-freebsd" }

ConstsOs(t) ==
    IF Contains(t, "linux") THEN "linux"
    ELSE IF Contains(t, "windows") THEN "windows"
    ELSE IF Contains(t, "darwin") THEN "macos"
    ELSE "freebsd"

ConstsArch(t) ==
    IF Contains(t, "x86_64") THEN "x86_64"
    ELSE IF Contains(t, "i686") THEN "x86"
    ELSE IF Contains(t, "aarch64") THEN "aarch64"
    ELSE IF Contains(t, "riscv64") THEN "riscv64"
    ELSE "arm"

\* cfg(windows), cfg(unix) of the running tool
CfgWindows == plat.os = "windows"
CfgUnix == plat.os # "windows"

(***************************************************************************)
(* File system and network effects.  An effect record threads the file     *)
(* system through the calls of one operation, as `?` does in the source:   *)
(* once ok is FALSE every later call leaves it unchanged.                  *)
(***************************************************************************)
\* At most one fault is injected into an operation.  File system: File::create
\* fails, write_all fails before or after some bytes, set_permissions fails.
\* Commands: the program cannot be started, the installing or registering
\* command exits non-zero, 'sc start' exits non-zero.
FsFaults == {"none", "create", "write0", "writeHalf"}
CmdFaults == {"spawnError", "exit1", "startExit1"}
Faults == FsFaults \cup {"chmod"} \cup CmdFaults

\* What a server may answer to a GET of url: nothing at all, an error
\* page, the release asset, a damaged copy of it, or a body that breaks off.
RECURSIVE LastSlash(_, _)
LastSlash(url, i) ==
    IF i = 0 THEN 0
    ELSE IF SubSeq(url, i, i) = "/" THEN i
    ELSE LastSlash(url, i - 1)

\* The file name of a .tar.gz URL without the extension
Stem(url) == SubSeq(url, LastSlash(url, Len(url)) + 1, Len(url) - Len(".tar.gz"))

Bodies(url) ==
    IF EndsWith(url, ".tar.gz")
    THEN {"tgz:" \o Stem(url), "tgz!" \o Stem(url), "not a tar.gz file"}
    ELSE {"payload"}

Responses(url) ==
    { [net |-> "unreachable", status |-> 0,   body |-> ""],
      [net |-> "ok",          status |-> 404, body |-> "Not Found"],
      [net |-> "bodyError",   status |-> 200, body |-> ""] }
    \cup { [net |-> "ok", status |-> 200, body |-> b] : b \in Bodies(url) }

Cur == [files |-> files, dirs |-> dirs, execs |-> execs, services |-> services,
        gets |-> <<>>, writes |-> <<>>, ok |-> TRUE, err |-> "", message |-> "",
        source |-> "none", steps |-> <<>>]

Fail(s, why) == [s EXCEPT !.ok = FALSE, !.err = why, !.message = why]

\* An error whose text the code composes with format!
FailWith(s, why, message) == [s EXCEPT !.ok = FALSE, !.err = why, !.message = message]

\* format!("Failed to download: HTTP {}", response.status())
HttpError(resp) == "Failed to download: HTTP " \o ToString(resp.status)

Put(f, p, b) == [q \in DOMAIN f \cup {p} |-> IF q = p THEN b ELSE f[q]]

PathExists(s, p) == p \in DOMAIN s.files \/ p \in s.dirs

DirExists(s, d) == d = NoPath \/ d \in s.dirs

\* fs::create_dir_all: the directory and every missing ancestor.
create_dir_all(s, p) ==
    IF ~s.ok THEN s
    ELSE [s EXCEPT !.dirs = @ \cup Ancestors(p)]

\* File::create truncates or creates the file, write_all then fills it: a
\* failure of write_all leaves what was written so far.
Partial(bytes, fault) ==
    IF fault = "write0" THEN "" ELSE SubSeq(bytes, 1, Len(bytes) \div 2)

IsSuccess(status) == status >= 200 /\ status <= 299

\* One HTTP GET (reqwest's get(url).send()): the request is recorded, and the
\* connection may fail before any response arrives.
HttpGet(s, url, resp) ==
    IF ~s.ok THEN s
    ELSE LET t == [s EXCEPT !.gets = Append(@, url)] IN
         IF resp.net = "unreachable" THEN Fail(t, "network") ELSE t

\* response.bytes(): reading the body may fail after the status line came.
ReadBody(s, resp) ==
    IF ~s.ok THEN s
    ELSE IF resp.net = "bodyError" THEN Fail(s, "body") ELSE s

\* File::create(path) followed by write_all(bytes); also fs::write.
WriteBytes(s, path, bytes, fault) ==
    IF ~s.ok THEN s
    ELSE IF fault = "create" \/ ~DirExists(s, Parent(path))
              \/ path \in s.dirs
         THEN Fail(s, "create")
    ELSE LET t == [s EXCEPT !.writes = Append(@, path)] IN
         IF fault \in {"write0", "writeHalf"}
         THEN Fail([t EXCEPT !.files = Put(@, path, Partial(bytes, fault))], "write")
         ELSE [t EXCEPT !.files = Put(@, path, bytes)]

(***************************************************************************)
(* build.rs                                                                *)
(***************************************************************************)
Kinds == {"ProcessCpuAgent", "NodeExporter", "WindowsExporter"}

NODE_EXPORTER_VERSION == "1.7.0"
WINDOWS_EXPORTER_VERSION == "0.25.1"

OutDir == <<"/", "build", "out">>
ManifestDir == <<"/", "repo">>
Unset == "<unset>"
OverrideFile == <<"/", "override", "artifact">>
OverrideUrls == {"https://example.com/custom-agent.exe"}

\* TargetInfo::from_triple
TargetOs(t) ==
    IF Contains(t, "windows") THEN "Windows"
    ELSE IF Contains(t, "linux") THEN "Linux"
    ELSE "Other"

TargetArch(t) ==
    IF Contains(t, "x86_64") \/ Contains(t, "amd64") THEN "X86_64"
    ELSE IF Contains(t, "i686") \/ Contains(t, "i586") \/ Contains(t, "386") THEN "X86"
    ELSE IF Contains(t, "aarch64") \/ Contains(t, "arm64") THEN "Aarch64"
    ELSE "Other"

\* TargetInfo, as main builds it from the TARGET variable
TargetInfo(t) == [triple |-> t, os |-> TargetOs(t), arch |-> TargetArch(t)]

is_linux(target) == target.os = "Linux"
is_windows(target) == target.os = "Windows"

output_name(kind) ==
    CASE kind = "ProcessCpuAgent" -> "process_cpu_agent.bin"
      [] kind = "NodeExporter" -> "node_exporter.tar.gz"
      [] kind = "WindowsExporter" -> "windows_exporter.msi"

artifacts_for(target) ==
    {"ProcessCpuAgent"}
        \cup (IF is_linux(target) THEN {"NodeExporter"} ELSE {})
        \cup (IF is_windows(target) THEN {"WindowsExporter"} ELSE {})

\* The arch match of default_process_cpu_agent_url and default_node_exporter_url
BuildArchToken(target) ==
    CASE target.arch = "X86_64" -> "amd64"
      [] target.arch = "X86" -> "386"
      [] target.arch = "Aarch64" -> "arm64"
      [] OTHER -> "amd64"

None == "<none>"

default_process_cpu_agent_url(target) ==
    IF target.os = "Other" THEN None
    ELSE LET os == IF target.os = "Windows" THEN "windows" ELSE "linux"
             suffix == IF os = "windows"
                       THEN "process-cpu-agent-" \o os \o "-" \o BuildArchToken(target) \o ".exe"
                       ELSE "process-cpu-agent-" \o os \o "-" \o BuildArchToken(target)
         IN "https://github.com/your-org/process-cpu-agent/releases/latest/download/" \o suffix

default_node_exporter_url(target) ==
    IF ~is_linux(target) THEN None
    ELSE "https://github.com/prometheus/node_exporter/releases/download/v"
             \o NODE_EXPORTER_VERSION \o "/node_exporter-" \o NODE_EXPORTER_VERSION
             \o ".linux-" \o BuildArchToken(target) \o ".tar.gz"

default_windows_exporter_url(target) ==
    IF ~is_windows(target) THEN None
    ELSE LET arch == IF target.arch = "X86_64" THEN "amd64" ELSE "386" IN
         "https://github.com/prometheus-community/windows_exporter/releases/download/v"
             \o WINDOWS_EXPORTER_VERSION \o "/windows_exporter-"
             \o WINDOWS_EXPORTER_VERSION \o "-" \o arch \o ".msi"

\* Artifact::default_url
default_url(kind, target) ==
    CASE kind = "ProcessCpuAgent" -> default_process_cpu_agent_url(target)
      [] kind = "NodeExporter" -> default_node_exporter_url(target)
      [] kind = "WindowsExporter" -> default_windows_exporter_url(target)

\* The vendored binary lib/process-cpu-agent[.exe] under the manifest
\* directory; the build script runs on the machine it builds for.
BundleFile ==
    IF CfgWindows THEN Join(ManifestDir, <<"lib", "process-cpu-agent.exe">>)
    ELSE Join(ManifestDir, <<"lib", "process-cpu-agent">>)

\* Artifact::bundle_path
bundle_path(s, kind) ==
    IF kind # "ProcessCpuAgent" THEN NoPath
    ELSE IF PathExists(s, BundleFile) THEN BundleFile ELSE NoPath

copy_to(s, src, dest, fault) ==
    LET t == create_dir_all(s, Parent(dest)) IN
    IF src \notin DOMAIN t.files THEN Fail(t, "copy: source not found")
    ELSE LET u == WriteBytes(t, dest, t.files[src], fault) IN
         IF u.ok /\ src \in u.execs THEN [u EXCEPT !.execs = @ \cup {dest}] ELSE u

download_to(s, url, dest, resp, fault) ==
    LET t == HttpGet(create_dir_all(s, Parent(dest)), url, resp) IN
    IF t.ok /\ ~IsSuccess(resp.status)
    THEN FailWith(t, "http status",
                  "Failed to download " \o url \o ": HTTP " \o ToString(resp.status))
    ELSE WriteBytes(ReadBody(t, resp), dest, resp.body, fault)

BuildDest(kind) == Join(OutDir, <<output_name(kind)>>)

\* Artifact::ensure with the bundled payload looked up before the override file
ensure_embedded_first(s, kind, target, env_file, env_url, resp, fault) ==
    LET dest == BuildDest(kind)
        bundled == bundle_path(s, kind)
    IN
    IF PathExists(s, dest) THEN s
    ELSE IF bundled # NoPath
         THEN copy_to([s EXCEPT !.source = "Embedded"], bundled, dest, fault)
    ELSE IF env_file # NoPath
         THEN copy_to([s EXCEPT !.source = "LocalFile"], env_file, dest, fault)
    ELSE IF env_url # Unset
         THEN download_to([s EXCEPT !.source = "RemoteUrl"], env_url, dest, resp, fault)
    ELSE LET url == default_url(kind, target)
             t == [s EXCEPT !.source = "DefaultUrl"]
         IN IF url = None THEN Fail(t, "No default URL for target")
            ELSE download_to(t, url, dest, resp, fault)

\* Artifact::ensure, with env_file and env_url the values of the artifact's
\* two environment variables (NoPath, Unset when the variable is not set).
ensure(s, kind, target, env_file, env_url, resp, fault) ==
    LET dest == BuildDest(kind)
        bundled == bundle_path(s, kind)
    IN
    IF PathExists(s, dest) THEN s
    ELSE IF env_file # NoPath
         THEN copy_to([s EXCEPT !.source = "LocalFile"], env_file, dest, fault)
    ELSE IF bundled # NoPath
         THEN copy_to([s EXCEPT !.source = "Embedded"], bundled, dest, fault)
    ELSE IF env_url # Unset
         THEN download_to([s EXCEPT !.source = "RemoteUrl"], env_url, dest, resp, fault)
    ELSE LET url == default_url(kind, target)
             t == [s EXCEPT !.source = "DefaultUrl"]
         IN IF url = None THEN Fail(t, "No default URL for target")
            ELSE download_to(t, url, dest, resp, fault)

(***************************************************************************)
(* Archives.  Bytes are opaque strings; what a decoder makes of them is    *)
(* given by their first four characters: "tgz:" a well-formed gzip'd tar   *)
(* whose single top-level directory is named by the rest, "tgz!" the same  *)
(* archive cut short after its first file, "zip:" and "zip!" likewise for  *)
(* zip (a valid central directory with a damaged second entry).  Anything  *)
(* else is no archive at all.                                              *)
(***************************************************************************)
Magic(bytes) == IF Len(bytes) >= 4 THEN SubSeq(bytes, 1, 4) ELSE ""
TopDir(bytes) == SubSeq(bytes, 5, Len(bytes))

\* An entry as the archive names it: a directory's name ends with '/'.
Entry(path, dir, data, x) ==
    [name |-> JoinWith(path, "/") \o (IF dir THEN "/" ELSE ""),
     path |-> path, data |-> data, x |-> x]

\* The entries a decoder yields before it stops, in archive order.
ArchiveEntries(bytes) ==
    LET top == TopDir(bytes) IN
    IF Magic(bytes) \in {"tgz:", "zip:"}
    THEN << Entry(<<top>>, TRUE, "", FALSE),
            Entry(<<top, "LICENSE">>, FALSE, "license", FALSE),
            Entry(<<top, "node_exporter">>, FALSE, "elf", TRUE) >>
    ELSE IF Magic(bytes) \in {"tgz!", "zip!"}
    THEN << Entry(<<top>>, TRUE, "", FALSE),
            Entry(<<top, "LICENSE">>, FALSE, "license", FALSE) >>
    ELSE << >>

(***************************************************************************)
(* src/exporter/downloader.rs                                              *)
(***************************************************************************)
write_file(s, path, content, fault) == WriteBytes(s, path, content, fault)

set_executable_permissions(s, path, fault) ==
    IF ~s.ok THEN s
    ELSE IF fault = "chmod" \/ path \notin DOMAIN s.files THEN Fail(s, "chmod")
    ELSE [s EXCEPT !.execs = @ \cup {path}]

\* download_file writing the body before it looks at the status
download_file_write_first(s, url, dest_path, resp, fault) ==
    LET t == HttpGet(create_dir_all(s, Parent(dest_path)), url, resp)
        u == write_file(ReadBody(t, resp), dest_path, resp.body, fault)
    IN IF u.ok /\ ~IsSuccess(resp.status) THEN FailWith(u, "http status", HttpError(resp))
       ELSE IF CfgUnix THEN set_executable_permissions(u, dest_path, fault) ELSE u

\* download_file leaving the parent directories to its caller
download_file_no_parent(s, url, dest_path, resp, fault) ==
    LET t == HttpGet(s, url, resp) IN
    IF t.ok /\ ~IsSuccess(resp.status) THEN FailWith(t, "http status", HttpError(resp))
    ELSE LET u == write_file(ReadBody(t, resp), dest_path, resp.body, fault) IN
         IF CfgUnix THEN set_executable_permissions(u, dest_path, fault) ELSE u

download_file(s, url, dest_path, resp, fault) ==
    LET t == HttpGet(create_dir_all(s, Parent(dest_path)), url, resp) IN
    IF t.ok /\ ~IsSuccess(resp.status) THEN FailWith(t, "http status", HttpError(resp))
    ELSE LET u == write_file(ReadBody(t, resp), dest_path, resp.body, fault) IN
         IF CfgUnix THEN set_executable_permissions(u, dest_path, fault) ELSE u

\* download_content asking the server once more after a failed request
download_content_retry(s, url, resp) ==
    LET t == HttpGet(s, url, resp)
        u == IF s.ok /\ (~t.ok \/ ~IsSuccess(resp.status))
             THEN HttpGet([t EXCEPT !.ok = TRUE, !.err = ""], url, resp) ELSE t
    IN IF u.ok /\ ~IsSuccess(resp.status) THEN FailWith(u, "http status", HttpError(resp))
       ELSE ReadBody(u, resp)

\* download_content returns the body; the effect carries it in `body`.
download_content(s, url, resp) ==
    LET t == HttpGet(s, url, resp) IN
    IF t.ok /\ ~IsSuccess(resp.status) THEN FailWith(t, "http status", HttpError(resp))
    ELSE ReadBody(t, resp)

ensure_directory_exists(s, path) == create_dir_all(s, path)

\* The entries of an archive placed under extract_path, one after the other.
\* tar keeps the mode recorded in the archive; extract_zip marks a file
\* executable on Unix when its name contains "exporter" or "agent".
RECURSIVE UnpackEntries(_, _, _, _, _, _)
UnpackEntries(s, entries, i, extract_path, zip, fault) ==
    IF ~s.ok \/ i > Len(entries) THEN s
    ELSE LET e == entries[i]
             outpath == IF zip THEN PathJoin(extract_path, e.path)
                        ELSE Join(extract_path, e.path)
             w == WriteBytes(create_dir_all(s, Parent(outpath)), outpath, e.data, fault)
             t == IF EndsWith(e.name, "/") THEN create_dir_all(s, outpath)
                  ELSE IF zip
                  THEN IF CfgUnix
                          /\ (Contains(e.name, "exporter") \/ Contains(e.name, "agent"))
                       THEN set_executable_permissions(w, outpath, fault)
                       ELSE w
                  ELSE IF w.ok /\ e.x THEN [w EXCEPT !.execs = @ \cup {outpath}]
                  ELSE w
         IN UnpackEntries(t, entries, i + 1, extract_path, zip, fault)

\* tar::Archive::unpack over a GzDecoder: entries are written as the stream
\* is decoded, and the first undecodable block ends the unpacking.
extract_tar_gz(s, archive_bytes, extract_path, fault) ==
    LET t == create_dir_all(s, extract_path)
        u == IF Magic(archive_bytes) \in {"tgz:", "tgz!"}
             THEN UnpackEntries(t, ArchiveEntries(archive_bytes), 1, extract_path, FALSE, fault)
             ELSE t
    IN IF u.ok /\ Magic(archive_bytes) # "tgz:" THEN Fail(u, "archive") ELSE u

\* ZipArchive::new reads the central directory first; by_index then fails
\* at the first damaged entry.
extract_zip(s, archive_bytes, extract_path, fault) ==
    LET t == create_dir_all(s, extract_path)
        u == IF Magic(archive_bytes) \in {"zip:", "zip!"}
             THEN UnpackEntries(t, ArchiveEntries(archive_bytes), 1, extract_path, TRUE, fault)
             ELSE t
    IN IF u.ok /\ Magic(archive_bytes) # "zip:" THEN Fail(u, "archive") ELSE u

download_and_extract_tar_gz(s, url, extract_path, resp, fault) ==
    extract_tar_gz(download_content(s, url, resp), resp.body, extract_path, fault)

download_and_extract_zip(s, url, extract_path, resp, fault) ==
    extract_zip(download_content(s, url, resp), resp.body, extract_path, fault)

(***************************************************************************)
(* src/os_detector.rs                                                      *)
(***************************************************************************)
\* env::consts::OS and env::consts::ARCH of the running tool
OS == plat.os
ARCH == plat.arch

\* detect_os taking every system it does not know for Linux
detect_os_linux_default(os) ==
    CASE os = "linux" -> "Linux"
      [] os = "windows" -> "Windows"
      [] os = "macos" -> "MacOs"
      [] OTHER -> "Linux"

detect_os(os) ==
    CASE os = "linux" -> "Linux"
      [] os = "windows" -> "Windows"
      [] os = "macos" -> "MacOs"
      [] OTHER -> "Unknown"

get_arch == ARCH

is_64bit(arch) == arch = "x86_64" \/ arch = "aarch64"

\* std::process::Command::output(): the command is issued unless the program
\* cannot be started; its exit status is the caller's to inspect.
RunCommand(s, command, fault) ==
    IF ~s.ok THEN s
    ELSE IF fault = "spawnError" THEN Fail(s, "spawn")
    ELSE [s EXCEPT !.steps = Append(@, command)]

(***************************************************************************)
(* src/exporter/process_exporter.rs                                        *)
(***************************************************************************)
PROCESS_CPU_AGENT_PORT == 31416

generate_default_download_url(os, arch) ==
    CASE os = "windows" ->
           "https://github.com/your-org/process-cpu-agent/releases/latest/download/process-cpu-agent-windows-amd64.exe"
      [] os = "linux" ->
           "https://github.com/your-org/process-cpu-agent/releases/latest/download/process-cpu-agent-linux-"
               \o (IF is_64bit(arch) THEN "amd64" ELSE "386")
      [] os = "macos" ->
           "https://github.com/your-org/process-cpu-agent/releases/latest/download/process-cpu-agent-darwin-"
               \o (IF arch = "aarch64" THEN "arm64" ELSE "amd64")
      [] OTHER ->
           "https://github.com/your-org/process-cpu-agent/releases/latest/download/process-cpu-agent-linux-amd64"

get_default_install_path ==
    IF CfgWindows THEN <<"C:", "Program Files", "prometheus", "process-cpu-agent">>
    ELSE <<"/", "opt", "prometheus", "process-cpu-agent">>

get_binary_path(install_path) ==
    IF CfgWindows THEN Join(install_path, <<"process-cpu-agent.exe">>)
    ELSE Join(install_path, <<"process-cpu-agent">>)

get_config_path(install_path) ==
    IF CfgWindows THEN Join(install_path, <<"config.yaml">>)
    ELSE Join(install_path, <<"config.yaml">>)

\* The ExecStart line stands for the unit file: the rest of it is fixed text.
create_linux_service_content(install_path, port) ==
    "ExecStart=" \o Str(install_path) \o "/process-cpu-agent --port " \o ToString(port)

\* The keys of the configuration file, without its comments.
create_config_content(port) ==
    "port: " \o ToString(port) \o "\ninterval: 15\nmax_processes: 100\n"

AgentServicePath == <<"/", "etc", "systemd", "system", "process-cpu-agent.service">>

\* ProcessCpuAgentSetup::new ignoring the URL it is given
AgentDownloadUrlDefault(download_url) == generate_default_download_url(OS, ARCH)

\* ProcessCpuAgentSetup::new: the override URL wins over the default one.
AgentDownloadUrl(download_url) ==
    IF download_url # Unset THEN download_url ELSE generate_default_download_url(OS, ARCH)

\* setup_windows_service giving up when 'sc stop' exits with a failure
setup_windows_service_stop_checked(s, install_path, port, fault) ==
    LET q == RunCommand(s, "sc query ProcessCpuAgent", fault)
        st == RunCommand(q, "sc stop ProcessCpuAgent", fault)
        d == IF q.ok /\ "ProcessCpuAgent" \in q.services
             THEN IF st.ok /\ fault = "stopExit1"
                  THEN Fail(st, "Failed to create Windows service")
                  ELSE [RunCommand(st, "sc delete ProcessCpuAgent", fault)
                            EXCEPT !.services = @ \ {"ProcessCpuAgent"}]
             ELSE q
        c == RunCommand(d, "sc create ProcessCpuAgent binPath= \""
                             \o Str(get_binary_path(install_path)) \o " --port "
                             \o ToString(port) \o "\"", fault)
    IN IF ~c.ok THEN c
       ELSE IF fault # "exit1" THEN [c EXCEPT !.services = @ \cup {"ProcessCpuAgent"}]
       ELSE Fail(c, "Failed to create Windows service")

\* The exit statuses of 'sc stop' and 'sc delete' are not looked at; a fault
\* "stopExit1" is 'sc stop' exiting with a failure.
setup_windows_service(s, install_path, port, fault) ==
    LET q == RunCommand(s, "sc query ProcessCpuAgent", fault)
        d == IF q.ok /\ "ProcessCpuAgent" \in q.services
             THEN LET st == RunCommand(q, "sc stop ProcessCpuAgent", fault)
                      dl == RunCommand(st, "sc delete ProcessCpuAgent", fault)
                  IN [dl EXCEPT !.services = @ \ {"ProcessCpuAgent"}]
             ELSE q
        c == RunCommand(d, "sc create ProcessCpuAgent binPath= \""
                             \o Str(get_binary_path(install_path)) \o " --port "
                             \o ToString(port) \o "\"", fault)
    IN IF ~c.ok THEN c
       ELSE IF fault # "exit1" THEN [c EXCEPT !.services = @ \cup {"ProcessCpuAgent"}]
       ELSE Fail(c, "Failed to create Windows service")

setup_linux_service(s, install_path, fault) ==
    RunCommand(write_file(s, AgentServicePath,
                          create_linux_service_content(install_path, PROCESS_CPU_AGENT_PORT),
                          fault),
               "systemctl daemon-reload", fault)

download_binary(s, install_path, url, resp, fault) ==
    download_file(s, url, get_binary_path(install_path), resp, fault)

\* ProcessCpuAgentSetup::setup registering the service whatever download_binary
\* returned
AgentSetupRegisterAlways(s, download_url, resp, fault) ==
    LET install_path == get_default_install_path
        url == AgentDownloadUrl(download_url)
        src == IF download_url # Unset THEN "RemoteUrl" ELSE "DefaultUrl"
        d == download_binary(ensure_directory_exists([s EXCEPT !.source = src], install_path),
                             install_path, url, resp, fault)
        e == [d EXCEPT !.ok = TRUE, !.err = ""]
    IN IF CfgWindows
       THEN setup_windows_service(e, install_path, PROCESS_CPU_AGENT_PORT, fault)
       ELSE setup_linux_service(e, install_path, fault)

\* ProcessCpuAgentSetup::setup
AgentSetup(s, download_url, resp, fault) ==
    LET install_path == get_default_install_path
        url == AgentDownloadUrl(download_url)
        src == IF download_url # Unset THEN "RemoteUrl" ELSE "DefaultUrl"
        d == download_binary(ensure_directory_exists([s EXCEPT !.source = src], install_path),
                             install_path, url, resp, fault)
    IN IF CfgWindows
       THEN setup_windows_service(d, install_path, PROCESS_CPU_AGENT_PORT, fault)
       ELSE setup_linux_service(d, install_path, fault)

\* create_config_file listing the port of the exporters
create_config_file_exporter_port(s, install_path, fault) ==
    write_file(s, get_config_path(install_path), create_config_content(31415), fault)

create_config_file(s, install_path, fault) ==
    write_file(s, get_config_path(install_path),
               create_config_content(PROCESS_CPU_AGENT_PORT), fault)

(***************************************************************************)
(* src/exporter/node_exporter.rs                                           *)
(***************************************************************************)
NODE_EXPORTER_PORT == 31415

NodeInstallPath == <<"/", "opt", "prometheus">>
SystemdDir == <<"/", "etc", "systemd", "system">>
\* The node exporter's unit written over the process agent's
NodeServicePathShared == AgentServicePath

NodeServicePath == <<"/", "etc", "systemd", "system", "node_exporter.service">>

\* EMBEDDED_NODE_EXPORTER_ARCHIVE: Some(..) only when built for Linux.
EMBEDDED_NODE_EXPORTER_ARCHIVE ==
    IF OS = "linux" THEN embedded.node ELSE None

\* generate_download_url with a dash where the release names have a dot
generate_download_url_dash(version, arch) ==
    "https://github.com/prometheus/node_exporter/releases/download/v" \o version
        \o "/node_exporter-" \o version \o "-linux-" \o arch \o ".tar.gz"

\* generate_download_url and NodeExporterSetup::download_url
generate_download_url(version, arch) ==
    "https://github.com/prometheus/node_exporter/releases/download/v" \o version
        \o "/node_exporter-" \o version \o ".linux-" \o arch \o ".tar.gz"

get_node_exporter_arch(arch) ==
    CASE arch = "x86_64" -> "amd64"
      [] arch = "aarch64" -> "arm64"
      [] arch \in {"arm", "armv7l"} -> "armv7"
      [] arch \in {"i686", "i586", "x86"} -> "386"
      [] OTHER -> IF is_64bit(arch) THEN "amd64" ELSE "386"

\* The arch token NodeExporterSetup::setup computes.
NodeSetupArch(arch) == IF is_64bit(arch) THEN "amd64" ELSE "386"

create_systemd_service_content(install_path, version, arch) ==
    "ExecStart=" \o Str(install_path) \o "/node_exporter/node_exporter-" \o version
        \o ".linux-" \o arch \o "/node_exporter --web.listen-address=:31415"

\* An embedded archive eligible for every requested version
NodeUsesEmbeddedAnyVersion(version) == EMBEDDED_NODE_EXPORTER_ARCHIVE # None

\* The embedded archive is eligible only for the compiled-in version.
NodeUsesEmbedded(version) ==
    version = NODE_EXPORTER_VERSION /\ EMBEDDED_NODE_EXPORTER_ARCHIVE # None

\* download_and_extract turning to the network when the embedded archive
\* cannot be unpacked
NodeDownloadAndExtractFallback(s, version, install_path, arch, resp, fault) ==
    LET extract_path == Join(install_path, <<"node_exporter">>)
        e == extract_tar_gz([s EXCEPT !.source = "Embedded"],
                            EMBEDDED_NODE_EXPORTER_ARCHIVE, extract_path, fault)
        d == download_and_extract_tar_gz([s EXCEPT !.source = "DefaultUrl"],
                                         generate_download_url(version, arch),
                                         extract_path, resp, fault)
    IN IF ~NodeUsesEmbedded(version) THEN d
       ELSE IF e.ok \/ ~s.ok THEN e
       ELSE download_and_extract_tar_gz(
                [e EXCEPT !.ok = TRUE, !.err = "", !.message = "", !.source = "DefaultUrl"],
                generate_download_url(version, arch), extract_path, resp, fault)

\* NodeExporterSetup::download_and_extract and the matching part of
\* setup_node_exporter.
NodeDownloadAndExtract(s, version, install_path, arch, resp, fault) ==
    LET extract_path == Join(install_path, <<"node_exporter">>) IN
    IF NodeUsesEmbedded(version)
    THEN extract_tar_gz([s EXCEPT !.source = "Embedded"],
                        EMBEDDED_NODE_EXPORTER_ARCHIVE, extract_path, fault)
    ELSE download_and_extract_tar_gz([s EXCEPT !.source = "DefaultUrl"],
                                     generate_download_url(version, arch),
                                     extract_path, resp, fault)

create_systemd_service(s, install_path, version, arch, fault) ==
    IF ~s.ok THEN s
    ELSE IF PathExists(s, SystemdDir)
    THEN RunCommand(write_file(s, NodeServicePath,
                               create_systemd_service_content(install_path, version, arch),
                               fault),
                    "systemctl daemon-reload", fault)
    ELSE s

\* NodeExporterSetup::setup (arch from is_64bit) and setup_node_exporter
\* (arch from get_node_exporter_arch) differ only in the arch token.
NodeSetup(s, version, install_path, arch, resp, fault) ==
    create_systemd_service(
        NodeDownloadAndExtract(ensure_directory_exists(s, install_path),
                               version, install_path, arch, resp, fault),
        install_path, version, arch, fault)

(***************************************************************************)
(* src/exporter/windows_exporter.rs                                        *)
(***************************************************************************)
\* "C:\\Program Files\\prometheus": three components on Windows, one relative
\* file name anywhere else.
WINDOWS_EXPORTER_PORT == 31415

WinInstallPath ==
    IF CfgWindows THEN <<"C:", "Program Files", "prometheus">>
    ELSE <<"C:\\Program Files\\prometheus">>

EMBEDDED_WINDOWS_EXPORTER ==
    IF OS = "windows" THEN embedded.windows ELSE None

\* WindowsExporterSetup::download_url with a token of its own for ARM
WindowsDownloadUrlArm(version, arch) ==
    LET arch_suffix == IF arch = "x86_64" THEN "amd64"
                       ELSE IF arch = "aarch64" THEN "arm64" ELSE "386" IN
    "https://github.com/prometheus-community/windows_exporter/releases/download/v"
        \o version \o "/windows_exporter-" \o version \o "-" \o arch_suffix \o ".msi"

WindowsDownloadUrl(version, arch) ==
    LET arch_suffix == IF arch = "x86_64" THEN "amd64" ELSE "386" IN
    "https://github.com/prometheus-community/windows_exporter/releases/download/v"
        \o version \o "/windows_exporter-" \o version \o "-" \o arch_suffix \o ".msi"

\* format!("{}\\windows_exporter.msi", install_path): a child of install_path
\* only where '\\' separates components.
InstallerPath(install_path) ==
    IF CfgWindows THEN Join(install_path, <<"windows_exporter.msi">>)
    ELSE Join(Parent(install_path),
              <<install_path[Len(install_path)] \o "\\windows_exporter.msi">>)

write_installer(s, install_path, bytes, fault) ==
    WriteBytes(s, InstallerPath(install_path), bytes, fault)

WindowsUsesEmbedded(version) ==
    version = WINDOWS_EXPORTER_VERSION /\ EMBEDDED_WINDOWS_EXPORTER # None

download_installer(s, version, install_path, arch, resp, fault) ==
    IF WindowsUsesEmbedded(version)
    THEN write_installer([s EXCEPT !.source = "Embedded"], install_path,
                         EMBEDDED_WINDOWS_EXPORTER, fault)
    ELSE LET t == HttpGet([s EXCEPT !.source = "DefaultUrl"],
                          WindowsDownloadUrl(version, arch), resp)
         IN IF t.ok /\ ~IsSuccess(resp.status) THEN FailWith(t, "http status", HttpError(resp))
            ELSE write_installer(ReadBody(t, resp), install_path, resp.body, fault)

install_msi(s, install_path, fault) ==
    LET t == RunCommand(s, "msiexec /i " \o Str(InstallerPath(install_path))
                               \o " /quiet /norestart LISTEN_PORT="
                               \o ToString(WINDOWS_EXPORTER_PORT), fault) IN
    IF t.ok /\ fault = "exit1" THEN Fail(t, "Installation failed")
    ELSE IF t.ok THEN [t EXCEPT !.services = @ \cup {"windows_exporter"}]
    ELSE t

\* configure_service returning an error when 'sc start' exits with a failure
configure_service_start_fatal(s, fault) ==
    LET t == RunCommand(RunCommand(s, "sc config windows_exporter start=auto", fault),
                        "sc start windows_exporter", fault)
    IN IF t.ok /\ fault = "startExit1" THEN Fail(t, "Installation failed") ELSE t

\* The exit status of 'sc start' only selects the message printed.
configure_service(s, fault) ==
    RunCommand(RunCommand(s, "sc config windows_exporter start=auto", fault),
               "sc start windows_exporter", fault)

\* WindowsExporterSetup::setup
WindowsSetup(s, version, install_path, resp, fault) ==
    configure_service(
        install_msi(
            download_installer(create_dir_all(s, install_path), version, install_path,
                               get_arch, resp, fault),
            install_path, fault),
        fault)

\* WindowsExporterSetup::create_config_file
WindowsConfigPath(install_path) ==
    IF CfgWindows THEN Join(install_path, <<"windows_exporter.yml">>)
    ELSE Join(install_path, <<"windows_exporter.yml">>)

WindowsCreateConfigFile(s, install_path, fault) ==
    WriteBytes(s, WindowsConfigPath(install_path), "collectors:", fault)

(***************************************************************************)
(* src/main.rs.  One fault may strike one of main's steps.                 *)
(***************************************************************************)
MainSteps == {"exporter", "exporterConfig", "agent", "config"}

FaultAt(step, at, fault) == IF step = at THEN fault ELSE "none"

\* A step whose error was logged or dropped: the next one starts afresh.
Logged(s) == [s EXCEPT !.ok = TRUE, !.err = "", !.message = ""]

Outcome(s) == IF s.ok THEN "ok" ELSE "failed"

\* main that gives up when the platform exporter's setup fails
main_exporter_fatal(s, process_cpu_agent_url, resp1, resp2, at, fault) ==
    LET os_type == detect_os(OS)
        none == [s |-> s, exporter |-> "none", agent |-> "none", config |-> "none"]
        e == IF os_type = "Windows"
             THEN WindowsSetup(s, WINDOWS_EXPORTER_VERSION, WinInstallPath, resp1,
                               FaultAt("exporter", at, fault))
             ELSE NodeSetup(s, NODE_EXPORTER_VERSION, NodeInstallPath, NodeSetupArch(ARCH),
                            resp1, FaultAt("exporter", at, fault))
        a == AgentSetup(e, process_cpu_agent_url, resp2, FaultAt("agent", at, fault))
        c == create_config_file(a, get_default_install_path, FaultAt("config", at, fault))
    IN IF os_type = "Unknown" THEN [none EXCEPT !.s = Fail(s, "Unsupported operating system")]
       ELSE [s |-> c, exporter |-> Outcome(e),
             agent |-> IF e.ok THEN Outcome(a) ELSE "none",
             config |-> IF a.ok THEN Outcome(c) ELSE "none"]

\* main, up to the result it matches on: the platform exporter's setup, whose
\* error is only printed, then the process agent's setup and config file.
\* main writing the agent's configuration file whatever its setup returned
main_config_regardless(s, process_cpu_agent_url, resp1, resp2, at, fault) ==
    LET os_type == detect_os(OS)
        none == [s |-> s, exporter |-> "none", agent |-> "none", config |-> "none"]
        e == IF os_type = "Windows"
             THEN WindowsSetup(s, WINDOWS_EXPORTER_VERSION, WinInstallPath, resp1,
                               FaultAt("exporter", at, fault))
             ELSE NodeSetup(s, NODE_EXPORTER_VERSION, NodeInstallPath, NodeSetupArch(ARCH),
                            resp1, FaultAt("exporter", at, fault))
        w == IF os_type = "Windows"
             THEN Logged(WindowsCreateConfigFile(Logged(e), WinInstallPath,
                                                 FaultAt("exporterConfig", at, fault)))
             ELSE Logged(e)
        a == AgentSetup(w, process_cpu_agent_url, resp2, FaultAt("agent", at, fault))
        c == create_config_file(Logged(a), get_default_install_path,
                                FaultAt("config", at, fault))
    IN IF os_type = "Unknown" THEN [none EXCEPT !.s = Fail(s, "Unsupported operating system")]
       ELSE [s |-> IF a.ok THEN c ELSE Fail(c, a.err), exporter |-> Outcome(e),
             agent |-> Outcome(a), config |-> IF a.ok THEN Outcome(c) ELSE "none"]

main(s, process_cpu_agent_url, resp1, resp2, at, fault) ==
    LET os_type == detect_os(OS)
        none == [s |-> s, exporter |-> "none", agent |-> "none", config |-> "none"]
        e == IF os_type = "Windows"
             THEN WindowsSetup(s, WINDOWS_EXPORTER_VERSION, WinInstallPath, resp1,
                               FaultAt("exporter", at, fault))
             ELSE NodeSetup(s, NODE_EXPORTER_VERSION, NodeInstallPath, NodeSetupArch(ARCH),
                            resp1, FaultAt("exporter", at, fault))
        w == IF os_type = "Windows"
             THEN Logged(WindowsCreateConfigFile(Logged(e), WinInstallPath,
                                                 FaultAt("exporterConfig", at, fault)))
             ELSE Logged(e)
        a == AgentSetup(w, process_cpu_agent_url, resp2, FaultAt("agent", at, fault))
        c == create_config_file(a, get_default_install_path, FaultAt("config", at, fault))
    IN IF os_type = "Unknown" THEN [none EXCEPT !.s = Fail(s, "Unsupported operating system")]
       ELSE [s |-> c, exporter |-> Outcome(e), agent |-> Outcome(a),
             config |-> IF a.ok THEN Outcome(c) ELSE "none"]

\* The metrics URLs of the "Next steps" main prints after a successful run
Summary(os_type) ==
    CASE os_type = "Linux" ->
             [exporter |-> "http://localhost:9100/metrics",
              agent |-> "http://localhost:9256/metrics"]
      [] os_type = "Windows" ->
             [exporter |-> "http://localhost:9182/metrics",
              agent |-> "http://localhost:9256/metrics"]
      [] os_type = "MacOs" ->
             [exporter |-> "http://localhost:9100/metrics",
              agent |-> "http://localhost:9256/metrics"]
      [] OTHER -> [exporter |-> "", agent |-> ""]

\* The exit status of the process: main returns, or calls exit(1).
ExitCode(result) == IF result.s.ok THEN 0 ELSE 1

(***************************************************************************)
(* The older modules: src/node_exporter.rs, src/windows_exporter.rs.  They *)
(* never look at the response status.                                      *)
(***************************************************************************)
LegacyNodeDownloadAndExtract(s, version, install_path, arch, resp, fault) ==
    LET t == ReadBody(HttpGet([s EXCEPT !.source = "DefaultUrl"],
                              generate_download_url(version, arch), resp), resp)
    IN extract_tar_gz(t, resp.body, Join(install_path, <<"node_exporter">>), fault)

LegacyDownloadInstaller(s, version, install_path, arch, resp, fault) ==
    LET t == ReadBody(HttpGet([s EXCEPT !.source = "DefaultUrl"],
                              WindowsDownloadUrl(version, arch), resp), resp)
    IN WriteBytes(t, InstallerPath(install_path), resp.body, fault)

(***************************************************************************)
(* State machine                                                           *)
(***************************************************************************)
\* The errors an injected fault raises
FaultErrors ==
    {"create", "write", "chmod", "spawn", "Installation failed",
     "Failed to create Windows service"}

NoOp ==
    [op |-> "none", kind |-> "none", version |-> "", env_file |-> NoPath,
     env_url |-> Unset, url |-> "", net |-> "none", status |-> 0, fault |-> "none",
     dest |-> NoPath, destExisted |-> FALSE, destBefore |-> "", srcExisted |-> FALSE,
     bundled |-> FALSE, embeddedAvail |-> FALSE,
     ok |-> TRUE, err |-> "", message |-> "", source |-> "none", gets |-> <<>>,
     writes |-> <<>>,
     steps |-> <<>>,
     exporter |-> "none", agent |-> "none", config |-> "none", exit |-> -1,
     printed |-> [exporter |-> "", agent |-> ""],
     os_type |-> "none", target_os |-> "none", target_arch |-> "none"]

BytesAt(f, p) == IF p \in DOMAIN f THEN f[p] ELSE ""

\* The command the exit status of the fault belongs to was run.
Struck(fault, s) ==
    \E i \in 1..Len(s.steps) :
        LET c == s.steps[i] IN
        \/ fault = "exit1" /\ Len(c) >= 9
               /\ (SubSeq(c, 1, 7) = "msiexec" \/ SubSeq(c, 1, 9) = "sc create")
        \/ fault = "startExit1" /\ c = "sc start windows_exporter"
        \/ fault = "stopExit1" /\ c = "sc stop ProcessCpuAgent"

\* The record of an operation on dest that found the file system as it is
\* now and left the effect s.  It keeps the response only if a request was
\* sent, and the fault only if it struck.
Done(op, kind, dest, resp, fault, s) ==
    [NoOp EXCEPT !.op = op, !.kind = kind, !.dest = dest,
                 !.net = IF s.gets = <<>> THEN "none" ELSE resp.net,
                 !.status = IF s.gets = <<>> THEN 0 ELSE resp.status,
                 !.fault = IF s.err \in FaultErrors \/ Struck(fault, s)
                          THEN fault ELSE "none",
                 !.destExisted = (dest \in DOMAIN files \/ dest \in dirs),
                 !.destBefore = BytesAt(files, dest),
                 !.ok = s.ok, !.err = s.err, !.message = s.message,
                 !.source = s.source,
                 !.gets = s.gets, !.writes = s.writes, !.steps = s.steps]

Commit(s, rec) ==
    /\ files' = s.files
    /\ dirs' = s.dirs
    /\ execs' = s.execs
    /\ services' = s.services
    /\ last' = rec
    /\ nops' = nops + 1
    /\ UNCHANGED <<host, triple, plat, embedded>>

EmptyFiles == [p \in {} |-> ""]

NoResponse == [net |-> "none", status |-> 0, body |-> ""]

\* ---- the build script ----------------------------------------------------
\* rustc's cfg and consts for the triple, and build.rs's TargetInfo
Platform(t) ==
    [os |-> ConstsOs(t), arch |-> ConstsArch(t), target |-> TargetInfo(t)]

BuildInit ==
    /\ host = "build"
    /\ triple \in Triples
    /\ plat = Platform(triple)
    /\ \E present \in SUBSET {OverrideFile, BundleFile} :
           files = [p \in present |-> IF p = OverrideFile THEN "override bytes"
                                      ELSE "vendored agent"]
    /\ dirs = Ancestors(OutDir) \cup Ancestors(Parent(BundleFile))
                  \cup Ancestors(Parent(OverrideFile))
    /\ execs = {}
    /\ services = {}
    /\ embedded = [node |-> None, windows |-> None]
    /\ last = NoOp
    /\ nops = 0

\* One iteration of main's loop over artifacts_for(target).
BuildEnsure ==
    /\ host = "build"
    /\ nops < MaxOps
    /\ \E kind \in artifacts_for(plat.target),
          env_file \in {NoPath, OverrideFile},
          env_url \in {Unset} \cup OverrideUrls,
          fault \in FsFaults :
       \E resp \in Responses(IF env_url # Unset THEN env_url
                              ELSE default_url(kind, plat.target)) :
          \E s \in {ensure(Cur, kind, plat.target, env_file, env_url, resp, fault)} :
          Commit(s, [Done("ensure", kind, BuildDest(kind), resp, fault, s)
                        EXCEPT !.env_file = env_file, !.env_url = env_url,
                               !.srcExisted = (env_file \in DOMAIN files),
                               !.bundled = (bundle_path(Cur, kind) # NoPath)])

\* ---- the installer -------------------------------------------------------
NodeVersions == {NODE_EXPORTER_VERSION, "99.99.99"}
WindowsVersions == {WINDOWS_EXPORTER_VERSION, "99.99.99"}

TestUrl == "http://192.0.2.1:9999/nonexistent/file.txt"
TestDest == <<"/", "tmp", "level1", "test.txt">>
TestExtractPath == <<"/", "tmp", "extract">>
TarInputs == {"not a tar.gz file", "tgz:pkg", "tgz!pkg"}
ZipInputs == {"not a zip file", "zip:pkg", "zip!pkg", "zip:..", "zip:/"}

\* What the build may have left in OUT_DIR for include_bytes!: the release
\* archive of the default URL, or whatever an override supplied.
EmbeddedChoices(p) ==
    { [node |-> n, windows |-> w] :
        n \in (IF p.os = "linux"
               THEN {"tgz:" \o Stem(default_node_exporter_url(p.target)),
                     "not a tar.gz file"}
               ELSE {None}),
        w \in (IF p.os = "windows" THEN {"msi installer"} ELSE {None}) }

InstallInit ==
    /\ host = "target"
    /\ triple \in Triples
    /\ plat = Platform(triple)
    /\ files = EmptyFiles
    /\ dirs \in (IF plat.os = "windows" THEN {{}} ELSE {{}, Ancestors(SystemdDir)})
    /\ execs = {}
    /\ services = {}
    /\ embedded \in EmbeddedChoices(plat)
    /\ last = NoOp
    /\ nops = 0

\* main's "Setting up Process CPU Agent" step:
\* ProcessCpuAgentSetup::new(download_url).setup()
RunAgentSetup ==
    /\ host = "target"
    /\ nops < MaxOps
    /\ detect_os(OS) \in {"Linux", "Windows", "MacOs"}
    /\ \E download_url \in {Unset} \cup OverrideUrls, fault \in (Faults \ {"startExit1"}) \cup {"stopExit1"} :
       \E resp \in Responses(AgentDownloadUrl(download_url)) :
          \E s \in {AgentSetup(Cur, download_url, resp, fault)} :
          Commit(s, [Done("agent_setup", "ProcessCpuAgent",
                          get_binary_path(get_default_install_path), resp, fault, s)
                        EXCEPT !.env_url = download_url,
                               !.url = AgentDownloadUrl(download_url)])

\* main's "Setting up Node Exporter" step, NodeExporterSetup::new().setup(),
\* and setup_node_exporter(version, path)
RunNodeSetup ==
    /\ host = "target"
    /\ nops < MaxOps
    /\ detect_os(OS) \in {"Linux", "MacOs"}
    /\ \E version \in NodeVersions,
          arch \in {NodeSetupArch(ARCH), get_node_exporter_arch(ARCH)},
          fault \in FsFaults \cup {"spawnError"} :
       \E resp \in Responses(generate_download_url(version, arch)) :
          \E s \in {NodeSetup(Cur, version, NodeInstallPath, arch, resp, fault)} :
          Commit(s, [Done("node_setup", "NodeExporter",
                          Join(NodeInstallPath, <<"node_exporter">>), resp, fault, s)
                        EXCEPT !.version = version,
                               !.url = generate_download_url(version, arch),
                               !.embeddedAvail = (EMBEDDED_NODE_EXPORTER_ARCHIVE # None)])

\* main's "Setting up Windows Exporter" step, WindowsExporterSetup::setup()
RunWindowsSetup ==
    /\ host = "target"
    /\ nops < MaxOps
    /\ detect_os(OS) = "Windows"
    /\ \E version \in WindowsVersions, fault \in FsFaults \cup CmdFaults :
       \E resp \in Responses(WindowsDownloadUrl(version, get_arch)) :
          \E s \in {WindowsSetup(Cur, version, WinInstallPath, resp, fault)} :
          Commit(s, [Done("windows_setup", "WindowsExporter",
                          InstallerPath(WinInstallPath), resp, fault, s)
                        EXCEPT !.version = version,
                               !.url = WindowsDownloadUrl(version, get_arch),
                               !.embeddedAvail = (EMBEDDED_WINDOWS_EXPORTER # None)])

\* main's "Creating Process CPU Agent config" step,
\* ProcessCpuAgentSetup::create_config_file()
RunCreateConfigFile ==
    /\ host = "target"
    /\ nops < MaxOps
    /\ detect_os(OS) \in {"Linux", "Windows", "MacOs"}
    /\ \E fault \in FsFaults :
          \E s \in {create_config_file(Cur, get_default_install_path, fault)} :
          Commit(s, Done("create_config_file", "ProcessCpuAgent",
                         get_config_path(get_default_install_path), NoResponse, fault, s))

\* main's windows_setup.create_config_file()
RunWindowsCreateConfigFile ==
    /\ host = "target"
    /\ nops < MaxOps
    /\ detect_os(OS) = "Windows"
    /\ \E fault \in FsFaults :
          \E s \in {WindowsCreateConfigFile(Cur, WinInstallPath, fault)} :
          Commit(s, Done("windows_create_config_file", "WindowsExporter",
                         WindowsConfigPath(WinInstallPath), NoResponse, fault, s))

\* downloader::download_file(url, dest_path)
RunDownloadFile ==
    /\ host = "target"
    /\ nops < MaxOps
    /\ \E fault \in FsFaults \cup {"chmod"}, resp \in Responses(TestUrl) :
          \E s \in {download_file(Cur, TestUrl, TestDest, resp, fault)} :
          Commit(s, [Done("download_file", "none", TestDest, resp, fault, s)
                        EXCEPT !.url = TestUrl])

\* downloader::extract_tar_gz(bytes, extract_path)
RunExtractTarGz ==
    /\ host = "target"
    /\ nops < MaxOps
    /\ \E bytes \in TarInputs, fault \in FsFaults :
          \E s \in {extract_tar_gz(Cur, bytes, TestExtractPath, fault)} :
          Commit(s, [Done("extract_tar_gz", "none", TestExtractPath, NoResponse, fault, s)
                        EXCEPT !.version = bytes])

\* downloader::extract_zip(bytes, extract_path)
RunExtractZip ==
    /\ host = "target"
    /\ nops < MaxOps
    /\ \E bytes \in ZipInputs, fault \in FsFaults \cup {"chmod"} :
          \E s \in {extract_zip(Cur, bytes, TestExtractPath, fault)} :
          Commit(s, [Done("extract_zip", "none", TestExtractPath, NoResponse, fault, s)
                        EXCEPT !.version = bytes])

\* src/node_exporter.rs: NodeExporterSetup::download_and_extract
RunLegacyNodeDownloadAndExtract ==
    /\ host = "target"
    /\ nops < MaxOps
    /\ \E fault \in FsFaults :
       \E resp \in Responses(generate_download_url(NODE_EXPORTER_VERSION, NodeSetupArch(ARCH))) :
          \E s \in {LegacyNodeDownloadAndExtract(Cur, NODE_EXPORTER_VERSION, NodeInstallPath,
                                                NodeSetupArch(ARCH), resp, fault)} :
          Commit(s, [Done("legacy_node_download_and_extract", "NodeExporter",
                          Join(NodeInstallPath, <<"node_exporter">>), resp, fault, s)
                        EXCEPT !.version = NODE_EXPORTER_VERSION])

\* src/windows_exporter.rs: WindowsExporterSetup::download_installer
RunLegacyDownloadInstaller ==
    /\ host = "target"
    /\ nops < MaxOps
    /\ \E fault \in FsFaults :
       \E resp \in Responses(WindowsDownloadUrl(WINDOWS_EXPORTER_VERSION, get_arch)) :
          \E s \in {LegacyDownloadInstaller(
                       create_dir_all(Cur, WinInstallPath), WINDOWS_EXPORTER_VERSION,
                       WinInstallPath, get_arch, resp, fault)} :
          Commit(s, [Done("legacy_download_installer", "WindowsExporter",
                          InstallerPath(WinInstallPath), resp, fault, s)
                        EXCEPT !.version = WINDOWS_EXPORTER_VERSION])

\* One run of the installer: main from its first line to its exit.
MainExporterUrl ==
    IF detect_os(OS) = "Windows"
    THEN WindowsDownloadUrl(WINDOWS_EXPORTER_VERSION, get_arch)
    ELSE generate_download_url(NODE_EXPORTER_VERSION, NodeSetupArch(ARCH))

RunMain ==
    /\ host = "target"
    /\ nops < MaxRuns
    /\ \E process_cpu_agent_url \in {Unset} \cup OverrideUrls,
          at \in MainSteps, fault \in Faults :
       \E resp1 \in Responses(MainExporterUrl),
          resp2 \in Responses(AgentDownloadUrl(process_cpu_agent_url)) :
       \E r \in {main(Cur, process_cpu_agent_url, resp1, resp2, at, fault)} :
          Commit(r.s, [Done("main", "all", get_binary_path(get_default_install_path),
                            NoResponse, fault, r.s)
                          EXCEPT !.env_url = process_cpu_agent_url,
                                 !.exporter = r.exporter, !.agent = r.agent,
                                 !.config = r.config, !.exit = ExitCode(r),
                                 !.printed = IF r.s.ok THEN Summary(detect_os(OS))
                                             ELSE NoOp.printed])

MainNext == RunMain

MainSpec == InstallInit /\ [][MainNext]_vars

\* ---- the URL and classification functions on their own -------------------
\* Further targets: 32-bit and ARM Windows, Intel macOS, and architectures the
\* tool has no name for.
UrlTriples ==
    Triples \cup { "i686-pc-windows-msvc", "aarch64-pc-windows-msvc",
                   "x86_64-apple-darwin", "armv7-unknown-linux-gnueabihf",
                   "riscv64gc-unknown-linux-gnu" }

UrlInit ==
    /\ host \in {"build", "target"}
    /\ triple \in UrlTriples
    /\ plat = Platform(triple)
    /\ files = EmptyFiles
    /\ dirs = {}
    /\ execs = {}
    /\ services = {}
    /\ embedded = [node |-> None, windows |-> None]
    /\ last = NoOp
    /\ nops = 0

\* A function call: nothing but its result changes.
Returned(rec) ==
    /\ last' = rec
    /\ nops' = nops + 1
    /\ UNCHANGED <<host, triple, plat, files, dirs, execs, services, embedded>>

\* Artifact::default_url, for every kind
CallDefaultUrl ==
    /\ host = "build"
    /\ nops < MaxOps
    /\ \E kind \in Kinds :
          Returned([NoOp EXCEPT !.op = "default_url", !.kind = kind,
                                !.version = IF kind = "NodeExporter"
                                            THEN NODE_EXPORTER_VERSION
                                            ELSE IF kind = "WindowsExporter"
                                            THEN WINDOWS_EXPORTER_VERSION ELSE "",
                                !.url = default_url(kind, TargetInfo(triple))])

\* process_exporter::generate_default_download_url
CallGenerateDefaultDownloadUrl ==
    /\ host = "target"
    /\ nops < MaxOps
    /\ Returned([NoOp EXCEPT !.op = "generate_default_download_url",
                             !.kind = "ProcessCpuAgent",
                             !.url = generate_default_download_url(OS, ARCH)])

\* node_exporter::generate_download_url with the arch token of
\* NodeExporterSetup::setup or of get_node_exporter_arch
CallGenerateDownloadUrl ==
    /\ host = "target"
    /\ nops < MaxOps
    /\ \E version \in NodeVersions,
          arch \in {NodeSetupArch(ARCH), get_node_exporter_arch(ARCH)} :
          Returned([NoOp EXCEPT !.op = "generate_download_url", !.kind = "NodeExporter",
                                !.version = version,
                                !.url = generate_download_url(version, arch)])

\* WindowsExporterSetup::download_url(get_arch())
CallDownloadUrl ==
    /\ host = "target"
    /\ nops < MaxOps
    /\ \E version \in WindowsVersions :
          Returned([NoOp EXCEPT !.op = "download_url", !.kind = "WindowsExporter",
                                !.version = version,
                                !.url = WindowsDownloadUrl(version, get_arch)])

\* detect_os() at run time, TargetInfo::from_triple at build time
CallClassify ==
    /\ nops < MaxOps
    /\ Returned([NoOp EXCEPT !.op = "classify",
                             !.os_type = IF host = "target" THEN detect_os(ConstsOs(triple))
                                         ELSE "none",
                             !.target_os = IF host = "build" THEN TargetInfo(triple).os
                                           ELSE "none",
                             !.target_arch = IF host = "build" THEN TargetInfo(triple).arch
                                             ELSE "none"])

UrlNext ==
    \/ CallDefaultUrl
    \/ CallGenerateDefaultDownloadUrl
    \/ CallGenerateDownloadUrl
    \/ CallDownloadUrl
    \/ CallClassify

UrlSpec == UrlInit /\ [][UrlNext]_vars

\* The tool from build to installation: the build script's loop on the build
\* machine, the installer's setups on the target.
Init == BuildInit \/ InstallInit

Next ==
    \/ BuildEnsure
    \/ RunAgentSetup
    \/ RunNodeSetup
    \/ RunWindowsSetup
    \/ RunCreateConfigFile
    \/ RunWindowsCreateConfigFile

Spec == Init /\ [][Next]_vars

\* The download and extraction functions on their own, old and new
DownloadNext ==
    \/ RunDownloadFile
    \/ RunExtractTarGz
    \/ RunExtractZip
    \/ RunLegacyNodeDownloadAndExtract
    \/ RunLegacyDownloadInstaller

DownloadSpec == InstallInit /\ [][DownloadNext]_vars

(***************************************************************************)
(* Properties.  Each is a predicate on the operation just run (`last`) and *)
(* on the file system it left.                                             *)
(***************************************************************************)
\* An acquisition by Artifact::ensure that found no destination
Ensured == last.op = "ensure" /\ ~last.destExisted

\* The exporter setups, whose only sources are the embedded payload and the
\* default URL
ExporterSetup == last.op \in {"node_setup", "windows_setup"}

DefaultVersion(kind) ==
    IF kind = "NodeExporter" THEN NODE_EXPORTER_VERSION ELSE WINDOWS_EXPORTER_VERSION

\* The response of the last operation's GET was a failure of the download
DownloadFailed ==
    /\ last.gets # <<>>
    /\ (last.net \in {"unreachable", "bodyError"} \/ ~IsSuccess(last.status))

\* C1: when the destination does not exist, Artifact::ensure uses the first
\* source that matches, in the order: an override file that is set and
\* exists, the bundled payload, the override URL, the default URL.
C1_FirstMatchWins ==
    Ensured =>
        last.source = (IF last.env_file # NoPath /\ last.srcExisted THEN "LocalFile"
                       ELSE IF last.bundled THEN "Embedded"
                       ELSE IF last.env_url # Unset THEN "RemoteUrl"
                       ELSE "DefaultUrl")

\* C2: an override file path that is set but names no existing file does not
\* select LocalFile and never by itself makes the acquisition fail: the
\* bundled payload, the override URL or the default URL is used instead.
C2_MissingOverrideFallsThrough ==
    (Ensured /\ last.env_file # NoPath /\ ~last.srcExisted) =>
        /\ last.source # "LocalFile"
        /\ last.err # "copy: source not found"

\* C3, as stated: whenever an eligible embedded payload exists it is the
\* source used, also when a local override file is set.  The override file,
\* when set, is one that exists, so that nothing here rests on C2.
C3_EmbeddedBeforeLocalFile ==
    /\ (Ensured /\ last.bundled /\ (last.env_file = NoPath \/ last.srcExisted))
           => last.source = "Embedded"
    /\ (ExporterSetup /\ last.embeddedAvail /\ last.version = DefaultVersion(last.kind))
           => last.source = "Embedded"

\* C3, amended: the order is LocalFile > Embedded > RemoteUrl > DefaultUrl.
\* An eligible embedded payload is the source used when no override file is
\* set, an existing override file is used even though a payload is bundled,
\* and a URL is used only when neither applies, the default URL only when no
\* override URL is set.
C3_LocalFileBeforeEmbedded ==
    /\ (Ensured /\ last.env_file = NoPath /\ last.bundled) => last.source = "Embedded"
    /\ (Ensured /\ last.env_file # NoPath /\ last.srcExisted) => last.source = "LocalFile"
    /\ (Ensured /\ last.source \in {"RemoteUrl", "DefaultUrl"})
           => last.env_file = NoPath /\ ~last.bundled
    /\ (Ensured /\ last.source = "DefaultUrl") => last.env_url = Unset
    /\ (ExporterSetup /\ last.embeddedAvail /\ last.version = DefaultVersion(last.kind))
           => last.source = "Embedded"

\* An existing override file was copied although a payload was bundled.
C3_Witness ==
    /\ Ensured /\ last.env_file # NoPath /\ last.srcExisted /\ last.bundled
    /\ last.source = "LocalFile" /\ last.ok
    /\ files[last.dest] = files[last.env_file]

\* C4: a node or Windows exporter setup uses the embedded bytes, without any
\* download, when the requested version is the compiled-in default and a
\* payload is embedded for the platform; for any other version it requests
\* the default URL of that version and nothing else, and a failed download
\* is an error that writes nothing.
C4_EmbeddedOnlyForDefaultVersion ==
    ExporterSetup =>
        IF last.version = DefaultVersion(last.kind) /\ last.embeddedAvail
        THEN last.source = "Embedded" /\ last.gets = <<>>
        ELSE /\ last.source = "DefaultUrl"
             /\ last.gets = <<last.url>>
             /\ Contains(last.url, "/v" \o last.version \o "/")
             /\ DownloadFailed => ~last.ok /\ last.writes = <<>>

\* Another version was asked of an installer that embeds a payload, and the
\* download failed.
C4_Witness ==
    /\ ExporterSetup /\ last.embeddedAvail
    /\ last.version # DefaultVersion(last.kind)
    /\ last.source = "DefaultUrl" /\ last.status = 404 /\ ~last.ok

C6_AgentFromEmbedded ==
    (last.op = "agent_setup" /\ last.env_url = Unset) =>
        /\ last.source = "Embedded"
        /\ last.gets = <<>>
        /\ last.ok => last.dest \in DOMAIN files /\ last.dest \in execs

\* C7: every download operation answers a non-2xx response with an error
\* after its single GET, and neither writes the body nor unpacks it.
C7_NonSuccessIsTerminal ==
    (last.gets # <<>> /\ last.net = "ok" /\ ~IsSuccess(last.status)) =>
        /\ ~last.ok
        /\ Len(last.gets) = 1
        /\ last.writes = <<>>

\* The destination of the last operation is as the operation found it.
DestUntouched ==
    /\ (last.dest \in DOMAIN files \/ last.dest \in dirs) = last.destExisted
    /\ BytesAt(files, last.dest) = last.destBefore

\* C8, as stated: download_file, failing for whatever reason, leaves the
\* destination as it was: no zero-byte and no partly written file.
C8_FailureLeavesDestination ==
    (last.op = "download_file" /\ ~last.ok) => DestUntouched

\* C8, amended: download_file returns an error when the address is
\* unreachable, the status is not 2xx, or the body cannot be read, and then it
\* has not touched the destination.  Its other failures come after
\* File::create: they are errors too, and leave at the destination what had
\* been written when they struck.
C8_FailureBeforeWriteLeavesDestination ==
    last.op = "download_file" =>
        /\ DownloadFailed => ~last.ok /\ last.err \in {"network", "http status", "body"}
        /\ (~last.ok /\ last.err \in {"network", "http status", "body"})
               => DestUntouched /\ last.writes = <<>>
        /\ (~last.ok /\ last.err \notin {"network", "http status", "body"})
               => last.err \in {"create", "write", "chmod"}
        /\ (~last.ok /\ last.err = "write")
               => last.dest \in DOMAIN files /\ Len(files[last.dest]) < Len("payload")

\* A download over an earlier one failed on its status and the file of the
\* earlier one is still in place.
C8_Witness ==
    /\ last.op = "download_file" /\ ~last.ok /\ last.err = "http status"
    /\ last.destExisted /\ last.destBefore = "payload"
    /\ files[last.dest] = "payload"

\* C9: extract_tar_gz and extract_zip, given bytes that are no valid archive,
\* return an error, do not create the extraction directory if it did not
\* exist, and leave no entry of the archive on disk.
C9_InvalidArchiveLeavesNothing ==
    (last.op \in {"extract_tar_gz", "extract_zip"}
         /\ Magic(last.version) \notin {"tgz:", "zip:"}) =>
        /\ ~last.ok
        /\ ~last.destExisted => last.dest \notin dirs
        /\ last.writes = <<>>

\* C10: an acquisition that finds its destination in place sends no GET,
\* copies and writes nothing, leaves the destination as it is and succeeds,
\* at build time and at run time.
C10_ExistingDestinationIsKept ==
    (last.op \in {"ensure", "agent_setup", "node_setup", "windows_setup"}
         /\ last.destExisted) =>
        /\ last.gets = <<>>
        /\ \A i \in 1..Len(last.writes) : last.writes[i] # last.dest
        /\ DestUntouched
        /\ last.ok

\* The paths the last operation wrote
Written == { last.writes[i] : i \in 1..Len(last.writes) }

\* The last operation wrote a service unit or ran a command
ServiceTouched ==
    \/ last.steps # <<>>
    \/ AgentServicePath \in Written
    \/ NodeServicePath \in Written

\* The last operation put its artifact in place: the agent's binary, whole
\* and executable where the platform has the bit; the node exporter's
\* binary, unpacked executable under the extraction directory; the whole
\* Windows installer.
BinaryPlaced ==
    CASE last.op = "agent_setup" ->
           /\ last.dest \in Written
           /\ BytesAt(files, last.dest) = "payload"
           /\ CfgUnix => last.dest \in execs
      [] last.op = "node_setup" ->
           \E p \in Written :
               /\ Len(p) > Len(last.dest) /\ SubSeq(p, 1, Len(last.dest)) = last.dest
               /\ p[Len(p)] = "node_exporter"
               /\ p \in DOMAIN files /\ p \in execs
      [] last.op = "windows_setup" ->
           /\ last.dest \in Written
           /\ BytesAt(files, last.dest) \in {"payload", EMBEDDED_WINDOWS_EXPORTER}
      [] OTHER -> FALSE

C12_ExitCode ==
    last.op = "main" =>
        /\ last.exit \in {0, 1}
        /\ last.exit = 1 <=> \/ detect_os(OS) = "Unknown"
                             \/ last.agent = "failed"
                             \/ last.config = "failed"
        /\ detect_os(OS) = "Unknown"
               => /\ last.exporter = "none" /\ last.agent = "none" /\ last.config = "none"
                  /\ last.gets = <<>> /\ last.writes = <<>> /\ last.steps = <<>>
        /\ detect_os(OS) # "Unknown"
               => /\ last.exporter # "none" /\ last.agent # "none"
                  /\ \E i \in 1..Len(last.gets) : last.gets[i] = AgentDownloadUrl(last.env_url)
                  /\ last.agent = "ok" <=> last.config # "none"

\* The node exporter's setup failed, the process agent's went through, and
\* main exited with 0.
C12_Witness ==
    /\ last.op = "main" /\ detect_os(OS) = "Linux"
    /\ last.exporter = "failed" /\ last.agent = "ok" /\ last.config = "ok"
    /\ last.exit = 0
    /\ get_config_path(get_default_install_path) \in DOMAIN files

\* The architecture of the platform the last call was made for, as the
\* four-valued class, and the URL token the specification gives each class
ArchClass ==
    IF host = "build" THEN plat.target.arch
    ELSE CASE ARCH = "x86_64" -> "X86_64"
           [] ARCH \in {"x86", "i686", "i586"} -> "X86"
           [] ARCH = "aarch64" -> "Aarch64"
           [] OTHER -> "Other"

ArchToken(class) ==
    CASE class = "X86_64" -> "amd64"
      [] class = "X86" -> "386"
      [] class = "Aarch64" -> "arm64"
      [] OTHER -> "amd64"

\* The last call computed a default URL of the kind
UrlOf(kind) ==
    /\ last.op \in {"default_url", "generate_default_download_url",
                    "generate_download_url", "download_url"}
    /\ last.kind = kind
    /\ last.url # None

\* C13: every default URL of the process agent and of the node exporter, at
\* build time and at run time, carries the token amd64 for X86_64, 386 for
\* X86, arm64 for Aarch64 and amd64 for any other architecture.
C13_ArchTokens ==
    /\ UrlOf("NodeExporter")
           => EndsWith(last.url, ".linux-" \o ArchToken(ArchClass) \o ".tar.gz")
    /\ UrlOf("ProcessCpuAgent")
           => \/ EndsWith(last.url, "-" \o ArchToken(ArchClass))
              \/ EndsWith(last.url, "-" \o ArchToken(ArchClass) \o ".exe")

\* C14: the node exporter's default URL has the form
\* .../download/v<ver>/node_exporter-<ver>.linux-<arch>.tar.gz for every
\* version, with 'linux-amd64' in it for X86_64 and 'linux-386' for X86.
C14_NodeUrlForm ==
    UrlOf("NodeExporter") =>
        /\ \E arch \in {"amd64", "386", "arm64", "armv7"} :
               last.url = "https://github.com/prometheus/node_exporter/releases/download/v"
                              \o last.version \o "/node_exporter-" \o last.version
                              \o ".linux-" \o arch \o ".tar.gz"
        /\ ArchClass = "X86_64" => Contains(last.url, "linux-amd64")
        /\ ArchClass = "X86" => Contains(last.url, "linux-386")

\* The URL of another version computed on 32-bit x86.
C14_Witness ==
    /\ UrlOf("NodeExporter") /\ last.op = "generate_download_url"
    /\ last.version # NODE_EXPORTER_VERSION /\ ArchClass = "X86"
    /\ Contains(last.url, "linux-386")

\* C15: the Windows exporter's default URL has 'amd64' in it for X86_64 and
\* '386' for every other architecture, at build time and at run time.
C15_WindowsUrlArch ==
    UrlOf("WindowsExporter") =>
        IF ArchClass = "X86_64"
        THEN Contains(last.url, "amd64") /\ ~Contains(last.url, "386")
        ELSE Contains(last.url, "386") /\ ~Contains(last.url, "amd64")

\* The run-time URL on 64-bit ARM Windows.
C15_Witness ==
    /\ UrlOf("WindowsExporter") /\ last.op = "download_url"
    /\ triple = "aarch64-pc-windows-msvc"
    /\ EndsWith(last.url, "-386.msi")

\* C16: no default-URL function returns a URL for an OS its kind has no
\* template for: the Windows exporter off Windows, the node exporter off
\* Linux, the process agent off Linux, Windows and macOS.
C16_NoUrlWithoutTemplate ==
    last.op \in {"default_url", "generate_default_download_url",
                 "generate_download_url", "download_url"} =>
        /\ (last.kind = "WindowsExporter" /\ ConstsOs(triple) # "windows") => last.url = None
        /\ (last.kind = "NodeExporter" /\ ConstsOs(triple) # "linux") => last.url = None
        /\ (last.kind = "ProcessCpuAgent"
                /\ ConstsOs(triple) \notin {"linux", "windows", "macos"}) => last.url = None

\* C17: classification gives every OS identifier exactly one of Linux,
\* Windows, MacOs, Unknown, with Unknown for those it does not know, every
\* target triple exactly one of X86_64, X86, Aarch64, Other, with Other for
\* those it does not know, and the same value whenever it is asked again.
C17_ClassificationTotal ==
    last.op = "classify" =>
        /\ host = "target" =>
               /\ last.os_type \in {"Linux", "Windows", "MacOs", "Unknown"}
               /\ last.os_type = "Unknown" <=> OS \notin {"linux", "windows", "macos"}
               /\ last.os_type = detect_os(plat.os)
        /\ host = "build" =>
               /\ last.target_arch \in {"X86_64", "X86", "Aarch64", "Other"}
               /\ last.target_arch = "Other"
                      <=> \A n \in {"x86_64", "amd64", "i686", "i586", "386",
                                    "aarch64", "arm64"} : ~Contains(triple, n)
               /\ last.target_os \in {"Linux", "Windows", "Other"}
               /\ last.target_arch = plat.target.arch
               /\ last.target_os = plat.target.os

\* An OS the tool has no name for was classified Unknown.
C17_Witness ==
    /\ last.op = "classify" /\ host = "target"
    /\ triple = "x86_64-unknown-freebsd"
    /\ last.os_type = "Unknown"

C19_WindowsServiceFailures ==
    /\ (last.op = "windows_setup" /\ last.fault = "exit1")
           => /\ ~last.ok /\ last.err = "Installation failed"
              /\ "sc start windows_exporter" \notin { last.steps[i] : i \in 1..Len(last.steps) }
    /\ (last.op = "agent_setup" /\ CfgWindows /\ last.fault = "exit1")
           => ~last.ok /\ last.err = "Failed to create Windows service"
    /\ (last.op = "windows_setup" /\ last.fault = "startExit1")
           => /\ last.ok
              /\ "windows_exporter" \in services
              /\ last.dest \in DOMAIN files

\* The exporter was installed and 'sc start' failed.
C19_Witness ==
    /\ last.op = "windows_setup" /\ last.fault = "startExit1" /\ nops = 1
    /\ last.ok
    /\ last.steps[Len(last.steps)] = "sc start windows_exporter"
    /\ "windows_exporter" \in services

\* The number of GET requests the last operation sent to the URL
Gets(url) == Cardinality({ i \in 1..Len(last.gets) : last.gets[i] = url })

\* main takes its exporter from the bytes built into the tool
MainExporterEmbedded ==
    IF detect_os(OS) = "Windows" THEN WindowsUsesEmbedded(WINDOWS_EXPORTER_VERSION)
    ELSE NodeUsesEmbedded(NODE_EXPORTER_VERSION)

WrittenBy(rec) == { rec.writes[i] : i \in 1..Len(rec.writes) }

\* C21: no two artifacts write to the same path: the build's outputs differ
\* from kind to kind, and an operation for one kind writes no path that the
\* operation before it wrote for another kind.
C21_DisjointPaths ==
    /\ [](\A k1, k2 \in artifacts_for(plat.target) :
              k1 # k2 => BuildDest(k1) # BuildDest(k2))
    /\ [][(last.kind \in Kinds /\ last'.kind \in Kinds /\ last'.kind # last.kind)
              => WrittenBy(last') \cap WrittenBy(last) = {}]_vars

\* The node exporter was set up after the process agent, and each wrote its
\* unit file.
C21_Witness ==
    /\ nops = 2 /\ last.op = "node_setup" /\ last.ok
    /\ NodeServicePath \in Written
    /\ AgentServicePath \in DOMAIN files
    /\ get_binary_path(get_default_install_path) \in DOMAIN files

C23_ErrorNamesUrl ==
    (~last.ok /\ last.err = "http status") =>
        /\ last.gets # <<>>
        /\ Contains(last.message, last.gets[Len(last.gets)])
        /\ Contains(last.message, "HTTP " \o ToString(last.status))

\* C24: after a successful node exporter setup that wrote the unit file, the
\* ExecStart line names the node_exporter binary the same setup unpacked: the
\* directory of the unit carries the architecture token of the archive.
C24_ExecStartNamesUnpacked ==
    (last.op = "node_setup" /\ last.ok /\ NodeServicePath \in Written) =>
        \E p \in Written :
            /\ p[Len(p)] = "node_exporter"
            /\ p \in DOMAIN files
            /\ BytesAt(files, NodeServicePath)
                   = "ExecStart=" \o Str(p) \o " --web.listen-address=:31415"

\* C25: whatever the names of a zip archive's entries, every file extract_zip
\* writes lies under extract_path.
C25_ZipConfined ==
    last.op = "extract_zip" =>
        \A p \in Written :
            /\ Len(p) > Len(last.dest)
            /\ SubSeq(p, 1, Len(last.dest)) = last.dest
            /\ ".." \notin { p[i] : i \in 1..Len(p) }

\* The place of a path among the writes of the last operation
Pos(p) == CHOOSE i \in 1..Len(last.writes) : last.writes[i] = p

\* The last run registered the agent's service: it wrote the unit file, or
\* issued a service command for ProcessCpuAgent.
AgentRegistered ==
    IF CfgWindows
    THEN \E i \in 1..Len(last.steps) : Contains(last.steps[i], "ProcessCpuAgent")
    ELSE AgentServicePath \in Written

C27_NoSystemdSkipsRegistration ==
    (/\ last.op = "main" /\ ~CfgWindows /\ detect_os(OS) # "Unknown"
     /\ SystemdDir \notin dirs
     /\ last.fault = "none"
     /\ last.exporter = "ok"
     /\ get_binary_path(get_default_install_path) \in Written
     /\ BytesAt(files, get_binary_path(get_default_install_path)) = "payload"
     /\ get_binary_path(get_default_install_path) \in execs)
        => /\ last.agent = "ok"
           /\ last.exit = 0
           /\ get_config_path(get_default_install_path) \in DOMAIN files

\* C28: registering the process agent on Windows replaces a registration
\* that exists: 'sc query' comes first, then 'sc stop' and 'sc delete' if the
\* service exists, then 'sc create', once and last; the setup succeeds
\* exactly when 'sc create' does, whatever 'sc stop' returned.
C28_ServiceOverwritten ==
    [][(last'.op = "agent_setup" /\ CfgWindows /\ last'.steps # <<>>) =>
           LET st == last'.steps
               n == Len(st)
               IsCreate(c) == Len(c) >= 9 /\ SubSeq(c, 1, 9) = "sc create"
           IN /\ st[1] = "sc query ProcessCpuAgent"
              /\ IF "ProcessCpuAgent" \in services
                 THEN /\ n = 4
                      /\ st[2] = "sc stop ProcessCpuAgent"
                      /\ st[3] = "sc delete ProcessCpuAgent"
                 ELSE n = 2
              /\ \A i \in 1..n : IsCreate(st[i]) <=> i = n
              /\ last'.ok <=> last'.fault # "exit1"
              /\ "ProcessCpuAgent" \in services' <=> last'.ok]_vars

\* The agent was set up a second time; 'sc stop' failed, and the service was
\* created again.
C28_Witness ==
    /\ last.op = "agent_setup" /\ CfgWindows /\ nops = 2
    /\ Len(last.steps) = 4
    /\ last.steps[2] = "sc stop ProcessCpuAgent"
    /\ last.fault = "stopExit1"
    /\ last.ok /\ "ProcessCpuAgent" \in services

\* The last exporter setup was one for which the embedded payload is selected
EmbeddedSelected ==
    /\ ExporterSetup
    /\ last.version = DefaultVersion(last.kind)
    /\ last.embeddedAvail

\* C29: when the embedded payload is selected and cannot be unpacked or
\* written, the setup returns the error: it sends no request to the network,
\* runs no command and writes no unit file.
C29_EmbeddedFailureIsFinal ==
    /\ EmbeddedSelected => last.gets = <<>> /\ last.source = "Embedded"
    /\ (EmbeddedSelected
          /\ \/ last.kind = "NodeExporter" /\ Magic(embedded.node) # "tgz:"
             \/ last.fault \in {"create", "write0", "writeHalf"})
       => /\ ~last.ok
          /\ last.err \in {"archive", "create", "write"}
          /\ last.steps = <<>>
          /\ NodeServicePath \notin Written

\* The embedded archive was not a tar.gz, and the setup failed without a
\* request.
C29_Witness ==
    /\ EmbeddedSelected /\ last.kind = "NodeExporter"
    /\ Magic(embedded.node) # "tgz:"
    /\ SystemdDir \in dirs
    /\ ~last.ok /\ last.err = "archive" /\ last.gets = <<>>
    /\ NodeServicePath \notin DOMAIN files

\* The URL at which a service listening on the port serves its metrics
MetricsUrl(port) == "http://localhost:" \o ToString(port) \o "/metrics"

\* C30: the metrics URLs main prints after a successful run carry the ports
\* the services were configured with: the agent's is the port of its
\* configuration file, the exporter's the port of its unit or installer.
C30_PrintedPortsConfigured ==
    (last.op = "main" /\ last.exit = 0) =>
        /\ last.printed.agent = MetricsUrl(PROCESS_CPU_AGENT_PORT)
        /\ \E port \in {9100, 9182, 9256, NODE_EXPORTER_PORT, PROCESS_CPU_AGENT_PORT} :
               /\ last.printed.agent = MetricsUrl(port)
               /\ Contains(BytesAt(files, get_config_path(get_default_install_path)),
                           "port: " \o ToString(port) \o "\n")
        /\ last.printed.exporter
               = MetricsUrl(IF CfgWindows THEN WINDOWS_EXPORTER_PORT ELSE NODE_EXPORTER_PORT)

====
